---- MODULE Spec2Model ----
(***************************************************************************)
(* A model of scripts/arxiv_1901/rnn.py of SuperNNova: the truncation      *)
(* search find_idx, the training loop train (checkpoint on improvement,    *)
(* plateau scheduler, stop at the learning-rate floor) and the inference   *)
(* pass get_predictions (full and per-offset windows, accumulator,         *)
(* accuracy).                                                              *)
(*                                                                         *)
(* Times, fluxes, losses and learning rates are integers: the code's       *)
(* floats are only compared, added and halved here, and the values drawn   *)
(* are ones on which integer arithmetic is exact.  Python indices are      *)
(* 0-based and TLA+ sequences 1-based; a length or an insertion index is   *)
(* the same number in both.                                                *)
(***************************************************************************)
EXTENDS Integers, Sequences, FiniteSets, TLC

VARIABLES
    \* ---- find_idx harness
    fi_delta,     \* delta_time of the example
    fi_ref,       \* its reference time (PEAKMJDNORM)
    fi_found,     \* offset -> find_idx(cumsum(delta), ref + offset), for the offsets asked so far
    \* ---- the model object
    training,     \* model.training: TRUE after model.train(), FALSE after model.eval()
    \* ---- train
    tpc,          \* "train": inside the epoch loop; "done": the loop has ended
    cfg,          \* config: nb_epoch, learning_rate, min_lr, patience, n_train_batches
    epoch,        \* epochs completed
    tb,           \* training batches run in the current epoch
    batch,        \* the counter `batch`
    best_loss,    \* best_loss
    ckpt,         \* the epoch (1-based) whose parameters net.pt holds, 0: no file
    saved,        \* the epochs at whose end torch.save ran
    lr,           \* optimizer.param_groups[0]["lr"]
    sched,        \* ReduceLROnPlateau's state: best, num_bad_epochs
    val_hist,     \* d_monitor_val["log_loss"]
    lr_hist,      \* lr_value as read at the end of each epoch
    \* ---- get_predictions
    pc,           \* "start", "batch", "full", "window", "sample", "done"
    pcfg,         \* num_elem, batch_size, the loaded weights and the order of OFFSETS
    data,         \* the batch of the iterator, with peak_MJDs beside it
    src_batch,    \* the batch as the iterator yielded it
    data_tmp,     \* the truncated deep copy of the current offset
    lengths,      \* lengths of the current offset
    start_idx, end_idx,
    iter_,        \* iter_ of the running sampling loop
    off,          \* the position of the current offset in the offset loop
    d_pred,       \* d_pred[key][example][sample], key 0 "all", key k the k-th offset
    d_target,     \* d_pred["target"]
    d_snid,       \* d_pred["SNID"]
    writes,       \* how often each slot of d_pred[key] was assigned
    lens,         \* the truncation length of each example at each offset, -1 before it is computed
    slices,       \* the [start_idx, end_idx) of the batches so far
    acc           \* the accuracies printed, as num / den

varsF == <<fi_delta, fi_ref, fi_found>>
varsT == <<tpc, cfg, epoch, tb, batch, best_loss, ckpt, saved, lr, sched, val_hist, lr_hist>>

varsP == <<pc, pcfg, data, src_batch, data_tmp, lengths, start_idx, end_idx, iter_, off,
           d_pred, d_target, d_snid, writes, lens, slices, acc>>
vars == <<varsF, varsT, varsP, training>>

(***************************************************************************)
(* Bounds of the model.                                                    *)
(***************************************************************************)
MaxLen == 3        \* longest delta_time series drawn
MaxDelta == 3      \* largest single delta_time drawn

\* Offsets asked of find_idx in the harness (those of the spec's worked example).
FindOffsets == {-5, 0, 3, 6, 10}
\* Reference times drawn in the harness.
FindRefs == {0, 2}

(***************************************************************************)
(* Pure helpers                                                            *)
(***************************************************************************)
Max(a, b) == IF a >= b THEN a ELSE b
Min(a, b) == IF a <= b THEN a ELSE b

RECURSIVE SumTo(_, _)
SumTo(s, i) == IF i = 0 THEN 0 ELSE s[i] + SumTo(s, i - 1)

\* np.cumsum(t)
cumsum(s) == [i \in 1..Len(s) |-> SumTo(s, i)]

\* np.searchsorted(array, value, side="left"): numpy's binary search, on
\* 0-based [lo, hi); array[mid] of the code is array[mid + 1] here.
RECURSIVE BinSearchLeft(_, _, _, _)
BinSearchLeft(array, value, lo, hi) ==
    IF lo >= hi THEN lo
    ELSE LET mid == lo + ((hi - lo) \div 2)
         IN  IF array[mid + 1] < value
             THEN BinSearchLeft(array, value, mid + 1, hi)
             ELSE BinSearchLeft(array, value, lo, mid)

searchsorted_left(array, value) == BinSearchLeft(array, value, 0, Len(array))

\* side="right" search: what find_idx would be with the other bias.
RECURSIVE BinSearchRight(_, _, _, _)
BinSearchRight(array, value, lo, hi) ==
    IF lo >= hi THEN lo
    ELSE LET mid == lo + ((hi - lo) \div 2)
         IN  IF array[mid + 1] <= value
             THEN BinSearchRight(array, value, mid + 1, hi)
             ELSE BinSearchRight(array, value, lo, mid)

find_idx_right(array, value) == Min(BinSearchRight(array, value, 0, Len(array)), Len(array))

\* find_idx(array, value)
find_idx(array, value) == Min(searchsorted_left(array, value), Len(array))

\* The window's requested time, peak_MJDs[k] - offset: the sign slipped.
TargetTime_minus(peak, offset) == peak - offset

\* peak_MJDs[k] + offset, the value handed to find_idx
TargetTime(peak, offset) == peak + offset

\* find_idx(times[k], peak_MJDs[k] + offset) for one example
LengthOf(delta, peak, offset) == find_idx(cumsum(delta), TargetTime(peak, offset))

\* A float: finite (v), +infinity, or not-a-number.
Fin(x) == [nan |-> FALSE, inf |-> FALSE, v |-> x]
PosInf == [nan |-> FALSE, inf |-> TRUE, v |-> 0]
NaN == [nan |-> TRUE, inf |-> FALSE, v |-> 0]

\* The values the variables of the parts that are not running hold.
IdleFind == fi_delta = <<>> /\ fi_ref = 0 /\ fi_found = <<>>

IdleTrain ==
    /\ tpc = "idle" /\ cfg = <<>> /\ epoch = 0 /\ tb = 0 /\ batch = 0
    /\ best_loss = PosInf /\ ckpt = 0 /\ saved = {} /\ lr = 0
    /\ sched = <<>> /\ val_hist = <<>> /\ lr_hist = <<>>

IdlePred ==
    /\ pc = "idle" /\ pcfg = <<>> /\ data = <<>> /\ src_batch = <<>>
    /\ data_tmp = <<>> /\ lengths = <<>>
    /\ start_idx = 0 /\ end_idx = 0 /\ iter_ = 0 /\ off = 0
    /\ d_pred = <<>> /\ d_target = <<>> /\ d_snid = <<>>
    /\ writes = <<>> /\ lens = <<>> /\ slices = <<>> /\ acc = <<>>

(***************************************************************************)
(* find_idx harness: an example is drawn, then offsets are asked one by    *)
(* one, each answer kept.                                                  *)
(***************************************************************************)
DeltaSeqs == UNION {[1..n -> 0..MaxDelta] : n \in 1..MaxLen}

InitFind ==
    /\ fi_delta \in DeltaSeqs
    /\ fi_ref \in FindRefs
    /\ fi_found = <<>>
    /\ IdleTrain /\ IdlePred
    /\ training = TRUE

AskOffset ==
    \E o \in FindOffsets \ DOMAIN fi_found :
        /\ fi_found' = [x \in DOMAIN fi_found \cup {o} |->
                          IF x = o THEN LengthOf(fi_delta, fi_ref, o) ELSE fi_found[x]]
        /\ UNCHANGED <<fi_delta, fi_ref, varsT, varsP, training>>

NextFind == AskOffset

(***************************************************************************)
(* train                                                                   *)
(***************************************************************************)
MaxEpoch == 5      \* largest nb_epoch drawn

\* lr_factor = 0.5, as LrFactorNum / LrFactorDen
LrFactorNum == 1
LrFactorDen == 2
\* ReduceLROnPlateau's eps (its default), in the unit the learning rates are counted in
SchedEps == 1

LearningRates == {16, 8}         \* config["learning_rate"]
MinLrs == {4, 6, 7, 8}           \* config["min_lr"]
Patiences == {0, 1}              \* config["patience"]
TrainBatchCounts == {1, 2}       \* batches the "train" iterator yields per epoch

\* Validation log-losses an epoch may produce.
LossValues == {Fin(0), Fin(1), Fin(2), PosInf, NaN}

IsFinite(a) == ~a.nan /\ ~a.inf

\* a < b on floats: any comparison with not-a-number is false
Lt(a, b) ==
    /\ ~a.nan /\ ~b.nan
    /\ ~a.inf
    /\ (b.inf \/ a.v < b.v)

\* a <= b on floats
Le(a, b) ==
    /\ ~a.nan /\ ~b.nan
    /\ (b.inf \/ (~a.inf /\ a.v <= b.v))

\* The checkpoint test with <= : an equal loss saves again.
IsImprovement_le(loss, best) == Le(loss, best)

\* d_monitor_val["log_loss"][-1] < best_loss
IsImprovement(loss, best) == Lt(loss, best)

\* The stop test with < : the floor itself does not stop the loop.
StopCond_lt(lr_value, min_lr) == lr_value < min_lr

\* lr_value <= config["min_lr"]
StopCond(lr_value, min_lr) == lr_value <= min_lr

\* ReduceLROnPlateau.is_better, mode "min", threshold 1e-4 relative:
\* a < best * (1 - 1e-4), which on the losses drawn is a < best.
is_better(a, best) == Lt(a, best)

\* ReduceLROnPlateau._reduce_lr: max(old * factor, min_lr), applied only when
\* the change exceeds eps.
reduce_lr(old_lr, min_lr) ==
    LET new_lr == Max((old_lr * LrFactorNum) \div LrFactorDen, min_lr)
    IN  IF old_lr - new_lr > SchedEps THEN new_lr ELSE old_lr

\* ReduceLROnPlateau.step(metrics) with cooldown 0: <<scheduler state, lr>> after it
scheduler_step(s, metric, patience, old_lr, min_lr) ==
    LET better == is_better(metric, s.best)
        nbad == IF better THEN 0 ELSE s.num_bad_epochs + 1
        best == IF better THEN metric ELSE s.best
    IN  IF nbad > patience
        THEN <<[best |-> best, num_bad_epochs |-> 0], reduce_lr(old_lr, min_lr)>>
        ELSE <<[best |-> best, num_bad_epochs |-> nbad], old_lr>>

Configs ==
    [nb_epoch : 0..MaxEpoch, learning_rate : LearningRates, min_lr : MinLrs,
     patience : Patiences, n_train_batches : TrainBatchCounts]

\* The state at the head of the epoch loop: best_loss = inf, batch = 0, the
\* scheduler fresh, the model as constructed (training mode).
InitTrain ==
    /\ cfg \in Configs
    /\ tpc = IF cfg.nb_epoch = 0 THEN "done" ELSE "train"
    /\ epoch = 0
    /\ tb = 0
    /\ batch = 0
    /\ best_loss = PosInf
    /\ ckpt = 0
    /\ saved = {}
    /\ lr = cfg.learning_rate
    /\ sched = [best |-> PosInf, num_bad_epochs |-> 0]
    /\ val_hist = <<>>
    /\ lr_hist = <<>>
    /\ training = TRUE
    /\ IdleFind /\ IdlePred

\* One training batch: model.train(), forward, backward, optimizer.step(), batch += 1
TrainBatch ==
    /\ tpc = "train"
    /\ tb < cfg.n_train_batches
    /\ training' = TRUE
    /\ tb' = tb + 1
    /\ batch' = batch + 1
    /\ UNCHANGED <<tpc, cfg, epoch, best_loss, ckpt, saved, lr, sched, val_hist, lr_hist>>
    /\ UNCHANGED <<varsF, varsP>>

\* The rest of the epoch: eval_pass (model.eval()), the metrics, the
\* checkpoint test, the scheduler step and the learning-rate floor test.
EndEpoch ==
    /\ tpc = "train"
    /\ tb = cfg.n_train_batches
    /\ \E loss \in LossValues :
        LET improved == IsImprovement(loss, best_loss)
            st == scheduler_step(sched, loss, cfg.patience, lr, cfg.min_lr)
            lr_value == st[2]
            stop == StopCond(lr_value, cfg.min_lr)
        IN  /\ training' = FALSE
            /\ val_hist' = Append(val_hist, loss)
            /\ best_loss' = IF improved THEN loss ELSE best_loss
            /\ ckpt' = IF improved THEN epoch + 1 ELSE ckpt
            /\ saved' = IF improved THEN saved \cup {epoch + 1} ELSE saved
            /\ sched' = st[1]
            /\ lr' = lr_value
            /\ lr_hist' = Append(lr_hist, lr_value)
            /\ epoch' = epoch + 1
            /\ tb' = 0
            /\ tpc' = IF stop \/ epoch + 1 >= cfg.nb_epoch THEN "done" ELSE "train"
    /\ UNCHANGED <<cfg, batch>>
    /\ UNCHANGED <<varsF, varsP>>

NextTrain == TrainBatch \/ EndEpoch

(***************************************************************************)
(* get_predictions                                                         *)
(***************************************************************************)
MaxElem == 2       \* largest test split drawn (num_elem)
PredLen == 2       \* T: time steps of a test batch
NbSamples == 2     \* config["nb_inference_samples"]

\* OFFSETS, the configured time deltas; window k is the one of Offsets[k],
\* window 0 the full light curve ("all").
Offsets == <<-2, 0, 2>>
NbOffsets == Len(Offsets)
Windows == 0..NbOffsets

\* The orders in which the offset loop may meet the configured offsets: as
\* listed, and reversed.
OffsetOrders == {Offsets, [p \in 1..NbOffsets |-> Offsets[NbOffsets + 1 - p]]}

\* col: the accumulator key of an offset, derived from the offset alone
ColOf(offset) == CHOOSE k \in 1..NbOffsets : Offsets[k] = offset

PredDeltas == {1, 2}      \* delta_time values of the test light curves
PredPeaks == {2, 4}       \* PEAKMJDNORM values
BatchSizes == {1, 2}      \* config["batch_size"]
Weights == {0, 1}         \* the parameters loaded from net.pt (stand-in network)

Classes == {0, 1}         \* the class labels; config["nb_classes"] is their number
NbClasses == Cardinality(Classes)

\* A slot of d_pred[key]: a class-probability vector (quarters), or nan in
\* every class.
ZeroSlot == [nan |-> FALSE, p |-> [c \in 1..NbClasses |-> 0]]
NanSlot == [nan |-> TRUE, p |-> [c \in 1..NbClasses |-> 0]]
ProbSlot(c) == [nan |-> FALSE, p |-> [k \in 1..NbClasses |-> IF k = c + 1 THEN 3 ELSE 1]]

\* The test batches: one light curve per example, every step observed.
Example(d, pk, tg, id) ==
    [X_time |-> d,
     X_flux |-> [t \in 1..Len(d) |-> 10 + t],
     X_fluxerr |-> [t \in 1..Len(d) |-> 1],
     X_flt |-> [t \in 1..Len(d) |-> t],
     X_mask |-> [t \in 1..Len(d) |-> TRUE],
     X_target |-> tg, X_SNID |-> id, peak |-> pk]

\* The batch the "test" iterator yields at start_idx: the next batch_size
\* examples of the split (fewer at its end), identifiers start_idx+1, ...
BatchesAt(start, n) ==
    [1..n -> [d : [1..PredLen -> PredDeltas], pk : PredPeaks, tg : Classes]]

MakeBatch(b, start) ==
    [k \in 1..Len(b) |-> Example(b[k].d, b[k].pk, b[k].tg, start + k)]

\* The stand-in network: in eval mode its class is a function of its weights
\* and of the steps the mask shows; in training mode dropout makes it any class.
VisibleSteps(ex) == Cardinality({t \in 1..Len(ex.X_mask) : ex.X_mask[t]})
NetClass(w, ex) == (w + VisibleSteps(ex)) % NbClasses

\* forward_pass(model, data, n): the sets of outputs it can return, one slot per example
ForwardOutputs(w, mode, batch_) ==
    IF mode
    THEN [1..Len(batch_) -> {ProbSlot(c) : c \in Classes}]
    ELSE {[k \in 1..Len(batch_) |-> ProbSlot(NetClass(w, batch_[k]))]}

\* lengths = [find_idx(times[k], peak_MJDs[k] + offset) for k in range(batch_size)]
Lengths(batch_, offset) ==
    [k \in 1..Len(batch_) |-> LengthOf(batch_[k].X_time, batch_[k].peak, offset)]

RECURSIVE SeqMax(_, _)
SeqMax(s, i) == IF i = 0 THEN 0 ELSE Max(s[i], SeqMax(s, i - 1))

\* The first step zeroed, one too late.
KeptSteps_late(length) == Max(1, length) + 1

\* length = max(1, length): the steps of an example left untouched
KeptSteps(length) == Max(1, length)

\* data_tmp: the deep copy cut to max_length steps, each example zeroed (mask
\* False) from KeptSteps(length) on.
Truncate(batch_, lens_) ==
    LET max_length == SeqMax(lens_, Len(lens_))
        cut(f, k, zero) ==
            [t \in 1..Min(max_length, Len(f)) |->
                IF t > KeptSteps(lens_[k]) THEN zero ELSE f[t]]
    IN  [k \in 1..Len(batch_) |->
            [X_time |-> cut(batch_[k].X_time, k, 0),
             X_flux |-> cut(batch_[k].X_flux, k, 0),
             X_fluxerr |-> cut(batch_[k].X_fluxerr, k, 0),
             X_flt |-> cut(batch_[k].X_flt, k, 0),
             X_mask |-> cut(batch_[k].X_mask, k, FALSE),
             X_target |-> batch_[k].X_target,
             X_SNID |-> batch_[k].X_SNID,
             peak |-> batch_[k].peak]]

\* data_tmp = data: no copy, the truncation works on the source batch itself.
no_copy(batch_) == [tensors |-> batch_, aliased |-> TRUE]

\* deepcopy(data): a batch of its own, sharing no tensor with the source
deepcopy(batch_) == [tensors |-> batch_, aliased |-> FALSE]

\* What the source batch holds after data_tmp was built from the copy cp: itself
\* when the copy is deep, the truncated batch when data_tmp is the source.
SourceAfter(batch_, cp, lens_) ==
    IF cp.aliased THEN Truncate(cp.tensors, lens_) ELSE batch_

PredConfigs ==
    [num_elem : 1..MaxElem, batch_size : BatchSizes, weights : Weights, order : OffsetOrders]

\* The offset of the p-th turn of `for offset in OFFSETS`
OffsetAt(p) == pcfg.order[p]

InitPred ==
    /\ pcfg \in PredConfigs
    /\ pc = "start"
    /\ training = TRUE
    /\ data = <<>> /\ src_batch = <<>> /\ data_tmp = <<>> /\ lengths = <<>>
    /\ start_idx = 0 /\ end_idx = 0 /\ iter_ = 0 /\ off = 0
    /\ d_pred = <<>> /\ d_target = <<>> /\ d_snid = <<>>
    /\ writes = <<>> /\ lens = <<>> /\ slices = <<>>
    /\ acc = <<>>
    /\ IdleFind /\ IdleTrain

\* Lines 288-327: grad off, model.eval(), the zeroed output arrays, start_idx = 0
Setup ==
    /\ pc = "start"
    /\ training' = FALSE
    /\ d_pred' = [w \in Windows |-> [i \in 1..pcfg.num_elem |-> [s \in 1..NbSamples |-> ZeroSlot]]]
    /\ d_target' = [i \in 1..pcfg.num_elem |-> [s \in 1..NbSamples |-> 0]]
    /\ d_snid' = [i \in 1..pcfg.num_elem |-> [s \in 1..NbSamples |-> 0]]
    /\ writes' = [w \in Windows |-> [i \in 1..pcfg.num_elem |-> [s \in 1..NbSamples |-> 0]]]
    /\ lens' = [w \in 1..NbOffsets |-> [i \in 1..pcfg.num_elem |-> -1]]
    /\ start_idx' = 0
    /\ pc' = "batch"
    /\ UNCHANGED <<pcfg, data, src_batch, data_tmp, lengths, end_idx, iter_, off, slices, acc>>
    /\ UNCHANGED <<varsF, varsT>>

\* The head of `for data in data_iterator` with a batch left: lines 332-339
NextBatch ==
    /\ pc = "batch"
    /\ start_idx < pcfg.num_elem
    /\ \E b \in BatchesAt(start_idx, Min(pcfg.batch_size, pcfg.num_elem - start_idx)) :
        /\ data' = MakeBatch(b, start_idx)
        /\ src_batch' = MakeBatch(b, start_idx)
        /\ end_idx' = start_idx + Len(b)
        /\ slices' = Append(slices, <<start_idx, start_idx + Len(b)>>)
    /\ iter_' = 0
    /\ pc' = "full"
    /\ off' = 1
    /\ UNCHANGED <<pcfg, training, data_tmp, lengths, start_idx, d_pred, d_target, d_snid,
                   writes, lens, acc>>
    /\ UNCHANGED <<varsF, varsT>>

\* One pass of the full-lightcurve loop: lines 344-351
FullPass ==
    /\ pc = "full"
    /\ \E out \in ForwardOutputs(pcfg.weights, training, data) :
        LET InBatch(i) == i > start_idx /\ i <= end_idx
        IN  /\ d_pred' = [d_pred EXCEPT ![0] =
                [i \in 1..pcfg.num_elem |->
                    IF InBatch(i)
                    THEN [d_pred[0][i] EXCEPT ![iter_ + 1] = out[i - start_idx]]
                    ELSE d_pred[0][i]]]
            /\ d_target' = [i \in 1..pcfg.num_elem |->
                    IF InBatch(i)
                    THEN [d_target[i] EXCEPT ![iter_ + 1] = data[i - start_idx].X_target]
                    ELSE d_target[i]]
            /\ d_snid' = [i \in 1..pcfg.num_elem |->
                    IF InBatch(i)
                    THEN [d_snid[i] EXCEPT ![iter_ + 1] = data[i - start_idx].X_SNID]
                    ELSE d_snid[i]]
            /\ writes' = [writes EXCEPT ![0] =
                [i \in 1..pcfg.num_elem |->
                    IF InBatch(i)
                    THEN [writes[0][i] EXCEPT ![iter_ + 1] = @ + 1]
                    ELSE writes[0][i]]]
    /\ IF iter_ + 1 < NbSamples
       THEN iter_' = iter_ + 1 /\ pc' = "full"
       ELSE iter_' = 0 /\ pc' = "window"
    /\ UNCHANGED <<pcfg, training, data, src_batch, data_tmp, lengths, start_idx, end_idx, off,
                   lens, slices, acc>>
    /\ UNCHANGED <<varsF, varsT>>

\* Where the offset loop goes after window k: the next offset, or, after the
\* last one, start_idx = end_idx (line 397) and the next batch.
AfterWindow(k) ==
    IF k < NbOffsets
    THEN /\ off' = k + 1 /\ pc' = "window" /\ start_idx' = start_idx
    ELSE /\ off' = 0 /\ pc' = "batch" /\ start_idx' = end_idx

\* The head of one offset: lines 357-382
Window ==
    /\ pc = "window"
    /\ LET ls == Lengths(data, OffsetAt(off))
           inb_idxs == {k \in 1..Len(ls) : ls[k] >= 1}
           col == ColOf(OffsetAt(off))
           cp == deepcopy(data)
       IN  /\ lengths' = ls
           /\ lens' = [lens EXCEPT ![col] =
                  [i \in 1..pcfg.num_elem |->
                      IF i > start_idx /\ i <= end_idx THEN ls[i - start_idx] ELSE lens[col][i]]]
           /\ IF Cardinality(inb_idxs) > 0
              THEN /\ data_tmp' = Truncate(cp.tensors, ls)
                   /\ data' = SourceAfter(data, cp, ls)
                   /\ pc' = "sample" /\ iter_' = 0
                   /\ UNCHANGED <<off, start_idx>>
              ELSE /\ data_tmp' = data_tmp
                   /\ data' = data
                   /\ iter_' = 0
                   /\ AfterWindow(off)
    /\ UNCHANGED <<pcfg, training, src_batch, end_idx, d_pred, d_target, d_snid, writes, slices, acc>>
    /\ UNCHANGED <<varsF, varsT>>

\* One pass of an offset's sampling loop: lines 384-395
Sample ==
    /\ pc = "sample"
    /\ \E out \in ForwardOutputs(pcfg.weights, training, data_tmp) :
        LET InBatch(i) == i > start_idx /\ i <= end_idx
            col == ColOf(OffsetAt(off))
        IN  /\ d_pred' = [d_pred EXCEPT ![col] =
                [i \in 1..pcfg.num_elem |->
                    IF InBatch(i)
                    THEN [d_pred[col][i] EXCEPT ![iter_ + 1] =
                            IF lengths[i - start_idx] >= 1 THEN out[i - start_idx] ELSE NanSlot]
                    ELSE d_pred[col][i]]]
            /\ writes' = [writes EXCEPT ![col] =
                [i \in 1..pcfg.num_elem |->
                    IF InBatch(i)
                    THEN [writes[col][i] EXCEPT ![iter_ + 1] = @ + 1]
                    ELSE writes[col][i]]]
    /\ IF iter_ + 1 < NbSamples
       THEN iter_' = iter_ + 1 /\ pc' = "sample" /\ UNCHANGED <<off, start_idx>>
       ELSE iter_' = 0 /\ AfterWindow(off)
    /\ UNCHANGED <<pcfg, training, data, src_batch, data_tmp, lengths, end_idx, d_target, d_snid,
                   lens, slices, acc>>
    /\ UNCHANGED <<varsF, varsT>>

\* The rows of the flattened table, (example, sample), and its identifiers
Rows == (1..pcfg.num_elem) \X (1..NbSamples)
Ids == {d_snid[r[1]][r[2]] : r \in Rows}
RowsOf(id) == {r \in Rows : d_snid[r[1]][r[2]] = id}

\* The k-th smallest of the values f[r], r in R
KthSmallest(f, R, k) ==
    CHOOSE v \in {f[r] : r \in R} :
        /\ Cardinality({r \in R : f[r] < v}) < k
        /\ k <= Cardinality({r \in R : f[r] <= v})

\* Twice the median of the values f[r], r in R (R not empty)
Median2(f, R) ==
    LET n == Cardinality(R)
    IN  IF n % 2 = 1
        THEN 2 * KthSmallest(f, R, (n + 1) \div 2)
        ELSE KthSmallest(f, R, n \div 2) + KthSmallest(f, R, (n \div 2) + 1)

\* df_pred.groupby("SNID").median(), the class columns of window w for one
\* identifier: nan values are skipped, and the median of none is nan.
GroupMedian(w, id) ==
    LET R == {r \in RowsOf(id) : ~d_pred[w][r[1]][r[2]].nan}
    IN  IF R = {}
        THEN NanSlot
        ELSE [nan |-> FALSE,
              p |-> [c \in 1..NbClasses |->
                        Median2([r \in R |-> d_pred[w][r[1]][r[2]].p[c]], R)]]

\* Twice g_pred.target of one identifier
GroupTarget2(id) == Median2([r \in RowsOf(id) |-> d_target[r[1]][r[2]]], RowsOf(id))

\* np.argmax over the classes: the first of the largest, as a class 0..K-1
ArgMax(p) ==
    (CHOOSE c \in 1..NbClasses :
        /\ \A k \in 1..NbClasses : p[k] <= p[c]
        /\ \A k \in 1..(c - 1) : p[k] < p[c]) - 1

\* The rows an offset window's accuracy keeps: .dropna()
Kept(w) == {id \in Ids : ~GroupMedian(w, id).nan}

\* (preds == target).sum() over a set of identifiers
NumCorrect(w, S) == Cardinality({id \in S : 2 * ArgMax(GroupMedian(w, id).p) = GroupTarget2(id)})

\* The accuracy of window w as num / den: lines 422-425 for the full
\* lightcurve, lines 429-437 for an offset, both dividing by len(g_pred).
Accuracy(w) ==
    IF w = 0
    THEN [num |-> NumCorrect(0, Ids), den |-> Cardinality(Ids)]
    ELSE [num |-> NumCorrect(w, Kept(w)), den |-> Cardinality(Ids)]

\* The iterator is exhausted: lines 399-449, the accuracies printed
Aggregate ==
    /\ pc = "batch"
    /\ start_idx >= pcfg.num_elem
    /\ acc' = [w \in Windows |-> Accuracy(w)]
    /\ pc' = "done"
    /\ UNCHANGED <<pcfg, training, data, src_batch, data_tmp, lengths, start_idx, end_idx, iter_, off,
                   d_pred, d_target, d_snid, writes, lens, slices>>
    /\ UNCHANGED <<varsF, varsT>>

NextPred == Setup \/ NextBatch \/ FullPass \/ Window \/ Sample \/ Aggregate

(***************************************************************************)
(* Specifications                                                          *)
(***************************************************************************)
SpecFind == InitFind /\ [][NextFind]_vars

SpecTrain == InitTrain /\ [][NextTrain]_vars

\* The loop of train is a sequential program: it keeps taking steps until it ends.
FairTrain == InitTrain /\ [][NextTrain]_vars /\ WF_vars(NextTrain)

Spec == InitPred /\ [][NextPred]_vars

(***************************************************************************)
(* Properties of find_idx (under SpecFind)                                 *)
(***************************************************************************)
\* The worked example: delta_time = [1,2,3], reference_time = 0.
IsExample == fi_delta = <<1, 2, 3>> /\ fi_ref = 0

\* Steps of the harness example whose elapsed time is strictly before the requested time.
StrictlyBefore(o) == {t \in 1..Len(fi_delta) : cumsum(fi_delta)[t] < fi_ref + o}

\* C1, as stated: on the worked example the truncation length is 1 at offset
\* 0, 2 at offset 3, 3 at offset 6, 3 at offset 10 and 0 at offset -5, an
\* observation at exactly the requested time counting inside the prefix.
C1_AsStated ==
    IsExample =>
        \A o \in DOMAIN fi_found :
            fi_found[o] = CASE o = 0 -> 1 [] o = 3 -> 2 [] o = 6 -> 3
                            [] o = 10 -> 3 [] OTHER -> 0

\* C1, amended: on the worked example the truncation length is 0 at offset 0,
\* 1 at offset 3, 2 at offset 6, 3 at offset 10 and 0 at offset -5; for every
\* example the length is the number of observations strictly before the
\* requested time, so an observation at exactly that time is outside the prefix.
C1_TruncationLengths ==
    /\ IsExample =>
        \A o \in DOMAIN fi_found :
            fi_found[o] = CASE o = 0 -> 0 [] o = 3 -> 1 [] o = 6 -> 2
                            [] o = 10 -> 3 [] OTHER -> 0
    /\ \A o \in DOMAIN fi_found : fi_found[o] = Cardinality(StrictlyBefore(o))

\* The worked example with all five offsets asked.
C1_Witness == IsExample /\ DOMAIN fi_found = FindOffsets

\* C10: for a fixed example, a larger offset never gives a smaller truncation
\* length, every length lies in [0, T], and an example in-bounds at an offset
\* is in-bounds at every larger one.
C10_TruncationMonotone ==
    \A o1 \in DOMAIN fi_found :
        /\ fi_found[o1] \in 0..Len(fi_delta)
        /\ \A o2 \in DOMAIN fi_found :
            o1 <= o2 => /\ fi_found[o1] <= fi_found[o2]
                        /\ (fi_found[o1] >= 1 => fi_found[o2] >= 1)

\* An example out-of-bounds at one offset and in-bounds, with a longer prefix
\* still, at two larger ones.
C10_Witness ==
    \E o1, o2, o3 \in DOMAIN fi_found :
        /\ o1 < o2 /\ o2 < o3
        /\ fi_found[o1] = 0 /\ fi_found[o2] >= 1 /\ fi_found[o3] > fi_found[o2]

(***************************************************************************)
(* Properties of train (under SpecTrain, FairTrain)                        *)
(***************************************************************************)
\* The least of +infinity and the losses of the epochs before e that are numbers.
BestBefore(h, e) ==
    LET S == {PosInf} \cup {h[j] : j \in {k \in 1..(e - 1) : ~h[k].nan}}
    IN  CHOOSE m \in S : \A x \in S : ~Lt(x, m)

\* The epochs whose loss is strictly below every earlier one (and below +infinity).
StrictImprovements(h) == {e \in 1..Len(h) : Lt(h[e], BestBefore(h, e))}

\* The earliest epoch attaining the least loss so far; 0 (no checkpoint) while
\* no loss has been below the initial +infinity.
EarliestBest(h) ==
    LET m == BestBefore(h, Len(h) + 1)
        at == {e \in 1..Len(h) : h[e] = m}
    IN  IF m = PosInf THEN 0 ELSE CHOOSE e \in at : \A x \in at : e <= x

\* C6: parameters are persisted at the end of an epoch iff its validation
\* log-loss is strictly below the best of all earlier epochs (initially
\* +infinity); best_loss is that running minimum, and the stored checkpoint is
\* that of the earliest epoch attaining the minimum seen so far.
C6_CheckpointOnStrictImprovement ==
    /\ saved = StrictImprovements(val_hist)
    /\ best_loss = BestBefore(val_hist, Len(val_hist) + 1)
    /\ ckpt = EarliestBest(val_hist)

\* A later epoch ties the best loss and a worse one lies between: the
\* checkpoint is still the first epoch's.
C6_Witness ==
    /\ Len(val_hist) >= 3
    /\ ckpt = 1
    /\ val_hist[3] = val_hist[1]
    /\ Lt(val_hist[1], val_hist[2])

\* The epochs after whose scheduler step the learning rate was at or below min_lr.
FloorEpochs == {e \in 1..Len(lr_hist) : lr_hist[e] <= cfg.min_lr}

C7_Safe ==
    /\ tpc = "train" =>
        /\ FloorEpochs = {}
        /\ epoch < cfg.nb_epoch
        /\ batch = epoch * cfg.n_train_batches + tb
    /\ tpc = "done" =>
        /\ batch = epoch * cfg.n_train_batches
        /\ IF FloorEpochs = {}
           THEN epoch = cfg.nb_epoch
           ELSE epoch <= cfg.nb_epoch /\ FloorEpochs = {epoch}

\* C7: the loop of train always ends; it ends at the end of the first epoch
\* after whose scheduler step the learning rate is at or below min_lr, or
\* after nb_epoch epochs if there is none, and no training batch runs after
\* such an epoch.
C7_PlateauStop == []C7_Safe /\ <>(tpc = "done")

\* Patience 1, 16 halved to 8 and then clamped to the floor 6: the loop has
\* ended at the epoch of the second reduction, before nb_epoch.
C7_Witness ==
    /\ tpc = "done"
    /\ epoch < cfg.nb_epoch
    /\ cfg.learning_rate = 16 /\ cfg.min_lr = 6 /\ cfg.patience = 1
    /\ lr = 6
    /\ \E e \in 1..Len(lr_hist) : lr_hist[e] = 8

\* C8: an epoch whose validation log-loss is not finite is the last one run,
\* train has ended there, and no checkpoint was written at its end.
C8_NonFiniteLossAborts ==
    \A e \in 1..Len(val_hist) :
        ~IsFinite(val_hist[e]) =>
            /\ e = Len(val_hist)
            /\ tpc = "done"
            /\ e \notin saved

(***************************************************************************)
(* Properties of get_predictions (under Spec)                              *)
(***************************************************************************)
\* C2: in the truncated batch of an offset window, the time axis has length
\* max over the batch of L_n, and for every example n and step t at or after
\* max(L_n, 1) the mask is false and flux, flux_error, filter_id and
\* delta_time are zero.
C2_MaskingInvariant ==
    pc = "sample" =>
        LET L == [n \in 1..Len(data) |->
                    find_idx(cumsum(data[n].X_time), data[n].peak + OffsetAt(off))]
            maxL == SeqMax(L, Len(L))
        IN  /\ Len(data_tmp) = Len(data)
            /\ \A n \in 1..Len(data_tmp) :
                /\ Len(data_tmp[n].X_mask) = maxL
                /\ Len(data_tmp[n].X_flux) = maxL
                /\ Len(data_tmp[n].X_fluxerr) = maxL
                /\ Len(data_tmp[n].X_flt) = maxL
                /\ Len(data_tmp[n].X_time) = maxL
                /\ \A t \in 1..maxL :
                    t > Max(L[n], 1) =>
                        /\ data_tmp[n].X_mask[t] = FALSE
                        /\ data_tmp[n].X_flux[t] = 0
                        /\ data_tmp[n].X_fluxerr[t] = 0
                        /\ data_tmp[n].X_flt[t] = 0
                        /\ data_tmp[n].X_time[t] = 0

\* A truncated batch holding an out-of-bounds example (kept at one step) next
\* to one two steps long, so that steps of the first are zeroed.
C2_Witness ==
    /\ pc = "sample"
    /\ \E n1, n2 \in 1..Len(lengths) :
        /\ lengths[n1] = 0 /\ lengths[n2] = 2
        /\ data_tmp[n1].X_mask[2] = FALSE /\ data_tmp[n1].X_mask[1] = TRUE

\* C3: once all test batches are processed, every slot [example, sample] of
\* every offset window at which the example's truncation length is 0 holds nan.
C3_OutOfBoundsSentinel ==
    pc = "done" =>
        \A k \in 1..NbOffsets : \A i \in 1..pcfg.num_elem : \A s \in 1..NbSamples :
            lens[k][i] = 0 => d_pred[k][i][s].nan

\* C4: after the pass the batch slices tile [0, num_elem) and every slot of
\* every window key was written exactly once.
C4_WriteOnce ==
    pc = "done" =>
        /\ Len(slices) >= 1
        /\ slices[1][1] = 0
        /\ slices[Len(slices)][2] = pcfg.num_elem
        /\ \A j \in 1..Len(slices) : slices[j][1] < slices[j][2]
        /\ \A j \in 1..(Len(slices) - 1) : slices[j][2] = slices[j + 1][1]
        /\ \A w \in Windows : \A i \in 1..pcfg.num_elem : \A s \in 1..NbSamples :
            writes[w][i][s] = 1

\* C5: the accuracy printed for an offset window is (identifiers left after
\* dropping the nan ones whose argmax equals the target) / (identifiers left).
C5_SentinelExcluded ==
    pc = "done" =>
        \A k \in 1..NbOffsets :
            LET left == {id \in Ids : ~GroupMedian(k, id).nan}
                right == {id \in left : 2 * ArgMax(GroupMedian(k, id).p) = GroupTarget2(id)}
            IN  left # {} =>
                    acc[k].num * Cardinality(left) = Cardinality(right) * acc[k].den

\* C9: whenever a forward pass of get_predictions is about to run, for the
\* full window or an offset window, the model is not in eval mode.
C9_StochasticInference == pc \in {"full", "sample"} => training = TRUE

\* C11: building and evaluating the truncated batch of one offset leaves the
\* source batch (flux, flux_error, filter_id, delta_time, mask, target) as the
\* iterator yielded it, so that in either order of the offsets the lengths and
\* the truncated batch of every window are those of the untruncated batch and
\* of the window's own offset, whatever windows were processed before.
C11_WindowIsolation ==
    /\ data = src_batch
    /\ pc = "sample" =>
        /\ lengths = Lengths(src_batch, OffsetAt(off))
        /\ data_tmp = Truncate(src_batch, Lengths(src_batch, OffsetAt(off)))

\* A window that keeps two steps of an example, evaluated after another
\* window cut the same example to one step and zeroed the rest of its copy.
C11_Witness ==
    /\ pc = "sample"
    /\ off >= 2
    /\ \E n \in 1..Len(lengths) :
        /\ lens[ColOf(OffsetAt(off - 1))][start_idx + n] = 1
        /\ lengths[n] = 2
        /\ data_tmp[n].X_mask[2] = TRUE
        /\ data_tmp[n].X_flux[2] = src_batch[n].X_flux[2]

====
